---- MODULE Spec2Model ----
(***************************************************************************)
(* Model of scripts/commit_reminder.py, the daily GitHub activity e-mail   *)
(* reporter: main(), get_user_activity_yesterday(), generate_html_email()  *)
(* and send_email(), with the Nepal-time date arithmetic and the automated *)
(* commit filter computed as the code computes them.  The commit-reminder  *)
(* issue script is modelled from its description in the specification.     *)
(***************************************************************************)
EXTENDS Integers, Sequences, FiniteSets, TLC

(***************************************************************************)
(* Bounds of the model.                                                    *)
(***************************************************************************)
MaxItems == 3        \* items (repositories, commits, search results) the platform yields in one run
MaxTicks == 1        \* seconds the clock may advance during one run

(***************************************************************************)
(* Python values.                                                          *)
(***************************************************************************)
None == "None"
\* a local that is not assigned yet is the empty tuple, an assigned one the
\* 1-tuple of its value
Unset == <<>>
Some(v) == <<v>>
\* the value stored under 'repositories_touched': a set until line 185, then its size
py_set(S) == <<"set", S>>
py_int(n) == <<"int", n>>
\* what os.environ.get can return: absent, empty, or a non-empty string
EnvVals == {None, "", "x"}
\* truthiness as used by all([...]) and `not os.environ.get(...)`
Truthy(v) == v # None /\ v # ""
\* mutant: any() in place of all()
any_of(vs) == \E i \in 1..Len(vs) : Truthy(vs[i])
all(vs) == \A i \in 1..Len(vs) : Truthy(vs[i])

(***************************************************************************)
(* Dates.  An instant is a number of seconds since 1970-01-01T00:00:00Z.   *)
(* An aware datetime is [days, secs, off]: the local calendar day (days    *)
(* since 1970-01-01), the local second of that day, and the UTC offset.    *)
(***************************************************************************)
SecondsPerDay == 86400
NEPAL_TZ == 20700    \* Asia/Kathmandu, UTC+05:45, no daylight saving time
UTC == 0

astimezone(dt, off) ==
    LET t == dt.days * SecondsPerDay + dt.secs - dt.off + off
    IN  [days |-> t \div SecondsPerDay, secs |-> t % SecondsPerDay, off |-> off]

datetime_now(t, off) == astimezone([days |-> 0, secs |-> t, off |-> UTC], off)

timestamp(dt) == dt.days * SecondsPerDay + dt.secs - dt.off

\* dt - timedelta(days=n): wall-clock arithmetic, same tzinfo
minus_days(dt, n) == [dt EXCEPT !.days = @ - n]

\* dt.replace(hour=h, minute=m, second=s)
replace_time(dt, h, m, s) == [dt EXCEPT !.secs = h * 3600 + m * 60 + s]

\* proleptic Gregorian calendar: day number -> (year, month, day)
civil(days) ==
    LET z   == days + 719468
        era == z \div 146097
        doe == z - era * 146097
        yoe == (doe - doe \div 1460 + doe \div 36524 - doe \div 146096) \div 365
        doy == doe - (365 * yoe + yoe \div 4 - yoe \div 100)
        mp  == (5 * doy + 2) \div 153
        d   == doy - (153 * mp + 2) \div 5 + 1
        m   == IF mp < 10 THEN mp + 3 ELSE mp - 9
        y   == yoe + era * 400 + (IF m <= 2 THEN 1 ELSE 0)
    IN  [year |-> y, month |-> m, day |-> d]

\* datetime.weekday(): Monday = 0 .. Sunday = 6 (1970-01-01 was a Thursday)
weekday(dt) == (dt.days + 3) % 7

Digits == <<"0","1","2","3","4","5","6","7","8","9">>
Digit(n) == Digits[n + 1]
\* strftime('%Y-%m-%d')
strftime_ymd(dt) ==
    LET c == civil(dt.days)
    IN  << Digit(c.year \div 1000), Digit((c.year \div 100) % 10),
           Digit((c.year \div 10) % 10), Digit(c.year % 10), "-",
           Digit(c.month \div 10), Digit(c.month % 10), "-",
           Digit(c.day \div 10), Digit(c.day % 10) >>

NEPALI_HOLIDAYS ==
    { <<1, 1>>, <<1, 15>>, <<2, 19>>, <<3, 8>>, <<4, 14>>, <<5, 1>>, <<5, 29>>,
      <<8, 20>>, <<10, 1>>, <<10, 10>>, <<10, 25>>, <<11, 2>>, <<12, 25>> }

is_nepali_holiday(date) ==
    LET nepal_date == astimezone(date, NEPAL_TZ)
        c == civil(nepal_date.days)
    IN  <<c.month, c.day>> \in NEPALI_HOLIDAYS

is_weekend_in_nepal(date) ==
    LET nepal_date == astimezone(date, NEPAL_TZ)
    IN  weekday(nepal_date) = 5

(***************************************************************************)
(* The automated-commit filter.  A string is a sequence of characters.     *)
(***************************************************************************)
AUTOMATED_COMMIT_PATTERNS ==
    << <<"a","u","t","o","m","a","t","e","d">>,
       <<"a","u","t","o","-","c","o","m","m","i","t">>,
       <<"b","o","t"," ","c","o","m","m","i","t">>,
       <<"g","i","t","h","u","b","-","a","c","t","i","o","n","s">>,
       <<"d","e","p","e","n","d","a","b","o","t">>,
       <<"r","e","n","o","v","a","t","e">>,
       <<"m","e","r","g","e"," ","p","u","l","l"," ","r","e","q","u","e","s","t">>,
       <<"b","u","m","p"," ","v","e","r","s","i","o","n">>,
       <<"u","p","d","a","t","e"," ","d","e","p","e","n","d","e","n","c","i","e","s">>,
       <<"a","u","t","o","-","g","e","n","e","r","a","t","e","d">>,
       <<"c","i",":">>,
       <<"[","b","o","t","]">>,
       <<"w","o","r","k","f","l","o","w",":">> >>

UpperCase == <<"A","B","C","D","E","F","G","H","I","J","K","L","M",
               "N","O","P","Q","R","S","T","U","V","W","X","Y","Z">>
LowerCase == <<"a","b","c","d","e","f","g","h","i","j","k","l","m",
               "n","o","p","q","r","s","t","u","v","w","x","y","z">>
lower_char(c) ==
    IF \E i \in 1..26 : UpperCase[i] = c
    THEN LowerCase[CHOOSE i \in 1..26 : UpperCase[i] = c]
    ELSE c
\* str.lower()
lower(s) == [i \in 1..Len(s) |-> lower_char(s[i])]

Whitespace == {" ", "\n", "\t"}
\* str.strip()
strip(s) ==
    LET keep == {i \in 1..Len(s) : s[i] \notin Whitespace}
    IN  IF keep = {} THEN <<>>
        ELSE SubSeq(s, CHOOSE i \in keep : \A j \in keep : i <= j,
                       CHOOSE i \in keep : \A j \in keep : i >= j)

\* `pattern in s`
contains(s, p) ==
    \E i \in 1..(Len(s) - Len(p) + 1) : SubSeq(s, i, i + Len(p) - 1) = p

\* s.split('\n')[0]
first_line(s) ==
    IF \E i \in 1..Len(s) : s[i] = "\n"
    THEN SubSeq(s, 1, (CHOOSE i \in 1..Len(s) :
                          s[i] = "\n" /\ \A j \in 1..(i - 1) : s[j] # "\n") - 1)
    ELSE s

is_automated_commit(commit_message) ==
    LET message_lower == strip(lower(commit_message))
    IN  \E k \in 1..Len(AUTOMATED_COMMIT_PATTERNS) :
            contains(message_lower, lower(AUTOMATED_COMMIT_PATTERNS[k]))

(***************************************************************************)
(* Inputs: the instants at which a run may start, the commit messages the  *)
(* hosting platform may return, and the repository names it may report.    *)
(***************************************************************************)
SampleInstants ==
    { 1709316899,    \* Fri 2024-03-01 23:59:59 NPT, the day after 29 February, last second before Saturday
      1709316900,    \* Sat 2024-03-02 00:00:00 NPT, still Friday in UTC
      1735668900,    \* Wed 2025-01-01 00:00:00 NPT, New Year's Day, 2024-12-31 in UTC
      1730582100 }   \* Sun 2024-11-03 03:00:00 NPT, Saturday and Tihar End in UTC

MsgFixBug == <<"F","i","x"," ","b","u","g">>
MsgCiBuild == <<"C","I",":"," ","b","u","i","l","d">>
MsgFixBugTwoLines == <<"F","i","x"," ","b","u","g","\n","c","i",":"," ","y">>
MsgMergePR == <<"M","e","r","g","e"," ","P","u","l","l"," ","R","e","q","u","e","s","t">>
Messages == {MsgFixBug, MsgCiBuild, MsgFixBugTwoLines, MsgMergePR}

RepoNames == {"alpha", "beta"}
Permissions == {"admin", "write", "read", "none"}

(***************************************************************************)
(* State of one run of the reporter.                                       *)
(***************************************************************************)
VARIABLES
    pc,                 \* position of the run
    clock, ticks,       \* the wall clock (an instant) and how often it advanced
    github_token, github_username, user_email,   \* main: values read from the environment
    force_send,         \* main: FORCE_SEND as read by the day check
    now_nepal,          \* main: datetime.now(NEPAL_TZ)
    yesterday_start, yesterday_start_utc, yesterday_end_utc,
    activity_summary,
    repo, repo_commits, \* loop variables of get_user_activity_yesterday
    yielded,            \* items the hosting platform has yielded to the run
    commit_windows,     \* (since, until) of every repo.get_commits call
    search_queries,     \* (type, created) of every search_issues call
    returned,           \* per repository name, yielded commits that are not automated
    github_queried,     \* a request was sent to the hosting platform
    github_failed,      \* a request to the hosting platform raised
    subject, html_content,
    sender_email, sender_password,
    smtp_log,           \* SMTP commands that succeeded, in order
    smtp_failed,        \* an SMTP step raised
    emails_attempted,   \* calls of send_email
    success,            \* main: result of send_email
    exit_code,          \* -1 while running, else the exit status of the process
    \* the commit-reminder issue script and the repository it watches
    hours_since_commit, \* age of the repository's last commit
    reminder_issues,    \* the labelled reminder issues on the hosting platform
    rem_pc,             \* position of the reminder run
    rem_runs,           \* reminder runs started
    stale_runs          \* reminder runs completed since the repository became stale

mainVars == <<github_token, github_username, user_email, force_send, now_nepal>>
windowVars == <<yesterday_start, yesterday_start_utc, yesterday_end_utc>>
loopVars == <<repo, repo_commits>>
histVars == <<yielded, commit_windows, search_queries, returned, github_queried, github_failed>>
mailVars == <<subject, html_content, sender_email, sender_password, smtp_log,
              smtp_failed, emails_attempted, success>>
remVars == <<hours_since_commit, reminder_issues, rem_pc, rem_runs, stale_runs>>
vars == <<pc, clock, ticks, mainVars, windowVars, activity_summary, loopVars,
          histVars, mailVars, exit_code, remVars>>

InitReminderIdle ==
    /\ hours_since_commit = 0
    /\ reminder_issues = <<>>
    /\ rem_pc = "idle"
    /\ rem_runs = 0
    /\ stale_runs = 0

Init ==
    /\ InitReminderIdle
    /\ pc = "main"
    /\ clock \in SampleInstants
    /\ ticks = 0
    /\ github_token = None /\ github_username = None /\ user_email = None
    /\ force_send = None
    /\ now_nepal = Unset
    /\ yesterday_start = Unset /\ yesterday_start_utc = Unset /\ yesterday_end_utc = Unset
    /\ activity_summary = Unset
    /\ repo = None /\ repo_commits = <<>>
    /\ yielded = 0
    /\ commit_windows = {} /\ search_queries = {}
    /\ returned = [n \in RepoNames |-> 0]
    /\ github_queried = FALSE /\ github_failed = FALSE
    /\ subject = Unset /\ html_content = Unset
    /\ sender_email = None /\ sender_password = None
    /\ smtp_log = <<>>
    /\ smtp_failed = FALSE
    /\ emails_attempted = 0
    /\ success = Unset
    /\ exit_code = -1

\* the clock advances between the two readings of datetime.now
Tick ==
    /\ pc = "activity"
    /\ ticks < MaxTicks
    /\ clock' = clock + 1
    /\ ticks' = ticks + 1
    /\ UNCHANGED <<remVars, pc, mainVars, windowVars, activity_summary, loopVars,
                   histVars, mailVars, exit_code>>

(***************************************************************************)
(* main(), up to the call of get_user_activity_yesterday.                  *)
(***************************************************************************)
Main ==
    /\ pc = "main"
    /\ \E t \in EnvVals, u \in EnvVals, e \in EnvVals :
        /\ github_token' = t /\ github_username' = u /\ user_email' = e
        /\ IF ~all(<<t, u, e>>)
           THEN pc' = "exit" /\ exit_code' = 1
           ELSE pc' = "check_day" /\ UNCHANGED exit_code
    /\ UNCHANGED <<remVars, clock, ticks, force_send, now_nepal, windowVars,
                   activity_summary, loopVars, histVars, mailVars>>

\* mutant: FORCE_SEND overrides the weekend only
skip_today_holiday_unforced(is_weekend, is_holiday, force) ==
    \/ is_weekend /\ ~Truthy(force)
    \/ is_holiday

\* lines 406-412: the run is skipped
skip_today(is_weekend, is_holiday, force) ==
    \/ is_weekend /\ ~Truthy(force)
    \/ is_holiday /\ ~Truthy(force)

CheckDay ==
    /\ pc = "check_day"
    /\ \E f \in EnvVals :
        LET now == datetime_now(clock, NEPAL_TZ)
            is_holiday == is_nepali_holiday(now)
            is_weekend == is_weekend_in_nepal(now)
        IN  /\ now_nepal' = Some(now)
            /\ force_send' = f
            /\ IF skip_today(is_weekend, is_holiday, f)
               THEN pc' = "exit" /\ exit_code' = 0
               ELSE pc' = "activity" /\ UNCHANGED exit_code
    /\ UNCHANGED <<remVars, clock, ticks, github_token, github_username, user_email,
                   windowVars, activity_summary, loopVars, histVars, mailVars>>

(***************************************************************************)
(* get_user_activity_yesterday()                                           *)
(***************************************************************************)
\* mutant: yesterday taken from the UTC calendar
yesterday_start_of_utc(now) == replace_time(minus_days(astimezone(now, UTC), 1), 0, 0, 0)

\* lines 88-90
yesterday_start_of(now) == replace_time(minus_days(now, 1), 0, 0, 0)
yesterday_end_of(start) == replace_time(start, 23, 59, 59)

ActivityBegin ==
    /\ pc = "activity"
    /\ LET now == datetime_now(clock, NEPAL_TZ)
           ystart == yesterday_start_of(now)
           yend == yesterday_end_of(ystart)
       IN  /\ yesterday_start' = Some(ystart)
           /\ yesterday_start_utc' = Some(timestamp(astimezone(ystart, UTC)))
           /\ yesterday_end_utc' = Some(timestamp(astimezone(yend, UTC)))
           /\ activity_summary' = Some(
                 [ date |-> strftime_ymd(ystart),
                   commits |-> <<>>,
                   pull_requests |-> <<>>,
                   issues |-> <<>>,
                   reviews |-> <<>>,
                   total_commits |-> 0,
                   total_prs |-> 0,
                   total_issues |-> 0,
                   total_reviews |-> 0,
                   repositories_touched |-> py_set({}) ])
    /\ pc' = "get_user"
    /\ UNCHANGED <<remVars, clock, ticks, mainVars, loopVars, histVars, mailVars, exit_code>>

\* the outer except clause (line 182): straight to line 185
GitHubError ==
    /\ github_queried' = TRUE
    /\ github_failed' = TRUE
    /\ pc' = "activity_done"

GetUser ==
    /\ pc = "get_user"
    /\ \/ /\ github_queried' = TRUE
          /\ pc' = "repos"
          /\ UNCHANGED github_failed
       \/ GitHubError
    /\ UNCHANGED <<remVars, clock, ticks, mainVars, windowVars, activity_summary, loopVars,
                   yielded, commit_windows, search_queries, returned, mailVars, exit_code>>

\* `for repo in repos` (line 117): the next repository, the end of the list, or a failed page
NextRepo ==
    /\ pc = "repos"
    /\ \/ /\ yielded < MaxItems
          /\ \E name \in RepoNames : repo' = name
          /\ yielded' = yielded + 1
          /\ pc' = "permission"
          /\ UNCHANGED <<github_queried, github_failed>>
       \/ /\ pc' = "pr_search"
          /\ UNCHANGED <<repo, yielded, github_queried, github_failed>>
       \/ /\ GitHubError
          /\ UNCHANGED <<repo, yielded>>
    /\ UNCHANGED <<remVars, clock, ticks, mainVars, windowVars, activity_summary, repo_commits,
                   commit_windows, search_queries, returned, mailVars, exit_code>>

\* line 120: owner, or collaborator with admin or write permission
may_push(owner_is_user, permission) ==
    owner_is_user \/ permission \in {"admin", "write"}

Permission ==
    /\ pc = "permission"
    /\ \/ \E owner_is_user \in BOOLEAN, permission \in Permissions :
            /\ IF may_push(owner_is_user, permission)
               THEN /\ repo_commits' = <<>>
                    /\ commit_windows' = commit_windows \cup
                                           {<<yesterday_start_utc[1], yesterday_end_utc[1]>>}
                    /\ pc' = "commits"
               ELSE /\ pc' = "repos"
                    /\ UNCHANGED <<repo_commits, commit_windows>>
            /\ UNCHANGED github_failed
       \/ \* get_collaborator_permission raised: inner except clause, next repository
          /\ github_failed' = TRUE
          /\ pc' = "repos"
          /\ UNCHANGED <<repo_commits, commit_windows>>
    /\ UNCHANGED <<remVars, clock, ticks, mainVars, windowVars, activity_summary, repo,
                   yielded, search_queries, returned, github_queried, mailVars, exit_code>>

\* lines 132-148: the next commit, the end of the list, or a failed page
Commits ==
    /\ pc = "commits"
    /\ \/ /\ yielded < MaxItems
          /\ \E message \in Messages :
                LET commit_message == first_line(message)
                IN  IF is_automated_commit(commit_message)
                    THEN UNCHANGED <<repo_commits, activity_summary, returned>>
                    ELSE /\ repo_commits' = Append(repo_commits, [message |-> commit_message])
                         /\ activity_summary' =
                               [activity_summary EXCEPT
                                   ![1].total_commits = @ + 1,
                                   ![1].repositories_touched = py_set(@[2] \cup {repo})]
                         /\ returned' = [returned EXCEPT ![repo] = @ + 1]
          /\ yielded' = yielded + 1
          /\ github_queried' = TRUE
          /\ UNCHANGED <<pc, github_failed>>
       \/ \* line 147: the list is exhausted
          /\ activity_summary' =
                IF repo_commits # <<>>
                THEN [activity_summary EXCEPT
                         ![1].commits = (repo :> repo_commits) @@ @]
                ELSE activity_summary
          /\ github_queried' = TRUE
          /\ pc' = "repos"
          /\ repo_commits' = <<>>    \* not read again before line 123
          /\ UNCHANGED <<yielded, returned, github_failed>>
       \/ \* inner except clause (line 150): next repository, repo_commits is dropped
          /\ github_queried' = TRUE
          /\ github_failed' = TRUE
          /\ pc' = "repos"
          /\ repo_commits' = <<>>    \* not read again before line 123
          /\ UNCHANGED <<yielded, activity_summary, returned>>
    /\ UNCHANGED <<remVars, clock, ticks, mainVars, windowVars, repo,
                   commit_windows, search_queries, mailVars, exit_code>>

\* lines 155-166: the next pull request, the end of the results, or a failed request
PRSearch ==
    /\ pc = "pr_search"
    /\ search_queries' = search_queries \cup {<<"pr", strftime_ymd(yesterday_start[1])>>}
    /\ \/ /\ yielded < MaxItems
          /\ yielded' = yielded + 1
          /\ \E name \in RepoNames :
                activity_summary' =
                    [activity_summary EXCEPT
                        ![1].pull_requests = Append(@, [repo |-> name]),
                        ![1].total_prs = @ + 1,
                        ![1].repositories_touched = py_set(@[2] \cup {name})]
          /\ github_queried' = TRUE
          /\ UNCHANGED <<pc, github_failed>>
       \/ /\ github_queried' = TRUE
          /\ pc' = "issue_search"
          /\ UNCHANGED <<activity_summary, yielded, github_failed>>
       \/ /\ GitHubError
          /\ UNCHANGED <<activity_summary, yielded>>
    /\ UNCHANGED <<remVars, clock, ticks, mainVars, windowVars, loopVars, commit_windows,
                   returned, mailVars, exit_code>>

\* lines 169-180: the next issue, the end of the results, or a failed request
IssueSearch ==
    /\ pc = "issue_search"
    /\ search_queries' = search_queries \cup {<<"issue", strftime_ymd(yesterday_start[1])>>}
    /\ \/ /\ yielded < MaxItems
          /\ yielded' = yielded + 1
          /\ \E name \in RepoNames :
                activity_summary' =
                    [activity_summary EXCEPT
                        ![1].issues = Append(@, [repo |-> name]),
                        ![1].total_issues = @ + 1,
                        ![1].repositories_touched = py_set(@[2] \cup {name})]
          /\ github_queried' = TRUE
          /\ UNCHANGED <<pc, github_failed>>
       \/ /\ github_queried' = TRUE
          /\ pc' = "activity_done"
          /\ UNCHANGED <<activity_summary, yielded, github_failed>>
       \/ /\ GitHubError
          /\ UNCHANGED <<activity_summary, yielded>>
    /\ UNCHANGED <<remVars, clock, ticks, mainVars, windowVars, loopVars, commit_windows,
                   returned, mailVars, exit_code>>

\* lines 185-186; the loop variables end with the call
ActivityDone ==
    /\ pc = "activity_done"
    /\ activity_summary' =
          [activity_summary EXCEPT ![1].repositories_touched = py_int(Cardinality(@[2]))]
    /\ repo' = None /\ repo_commits' = <<>>
    /\ pc' = "render"
    /\ UNCHANGED <<remVars, clock, ticks, mainVars, windowVars, histVars, mailVars, exit_code>>

(***************************************************************************)
(* generate_html_email()                                                   *)
(***************************************************************************)
MOTIVATIONAL_QUOTES ==
    << "Code is like humor. When you have to explain it, it's bad. - Cory House",
       "First, solve the problem. Then, write the code. - John Johnson",
       "Experience is the name everyone gives to their mistakes. - Oscar Wilde",
       "In order to be irreplaceable, one must always be different. - Coco Chanel",
       "Java is to JavaScript what car is to Carpet. - Chris Heilmann",
       "Knowledge is power. - Francis Bacon",
       "Sometimes it pays to stay in bed on Monday, rather than spending the rest of the week debugging Monday's code. - Dan Salomon",
       "Perfection is achieved not when there is nothing more to add, but rather when there is nothing more to take away. - Antoine de Saint-Exupery",
       "Ruby is rubbish! PHP is phpantastic! - Nikita Popov",
       "Code never lies, comments sometimes do. - Ron Jeffries",
       "Simplicity is the ultimate sophistication. - Leonardo da Vinci",
       "Make it work, make it right, make it fast. - Kent Beck",
       "Clean code always looks like it was written by someone who cares. - Robert C. Martin",
       "Any fool can write code that a computer can understand. Good programmers write code that humans can understand. - Martin Fowler",
       "Programming isn't about what you know; it's about what you can figure out. - Chris Pine",
       "The best error message is the one that never shows up. - Thomas Fuchs",
       "A ship in harbor is safe, but that is not what ships are built for. - John A. Shedd",
       "Progress, not perfection. - Anonymous",
       "Every expert was once a beginner. - Helen Hayes",
       "The journey of a thousand miles begins with one step. - Lao Tzu" >>

\* random.choice(seq): the values it can return
random_choice(seq) == {seq[i] : i \in 1..Len(seq)}

\* mutant: only commits count as activity
has_activity_commits_only(summary) == summary.total_commits > 0

\* lines 193-195
has_activity(summary) ==
    summary.total_commits > 0 \/ summary.total_prs > 0 \/ summary.total_issues > 0

Render ==
    /\ pc = "render"
    /\ IF has_activity(activity_summary[1])
       THEN /\ subject' = <<"Your GitHub Activity Summary", activity_summary[1].date>>
            /\ html_content' = Some([template |-> "activity", quote |-> None])
       ELSE \E quote \in random_choice(MOTIVATIONAL_QUOTES) :
            /\ subject' = <<"Daily Motivation", activity_summary[1].date>>
            /\ html_content' = Some([template |-> "motivation", quote |-> quote])
    /\ pc' = "send_email"
    /\ UNCHANGED <<remVars, clock, ticks, mainVars, windowVars, activity_summary, loopVars,
                   histVars, sender_email, sender_password, smtp_log, smtp_failed,
                   emails_attempted, success, exit_code>>

(***************************************************************************)
(* send_email()                                                            *)
(***************************************************************************)
\* lines 359-364
SendEmail ==
    /\ pc = "send_email"
    /\ emails_attempted' = emails_attempted + 1
    /\ \E se \in EnvVals, sp \in EnvVals :
        IF ~all(<<se, sp>>)
        THEN /\ success' = Some(FALSE) /\ pc' = "main_result"
             /\ UNCHANGED <<sender_email, sender_password>>
        ELSE /\ sender_email' = se /\ sender_password' = sp
             /\ pc' = "smtp_connect" /\ UNCHANGED success
    /\ UNCHANGED <<remVars, clock, ticks, mainVars, windowVars, activity_summary, loopVars,
                   histVars, subject, html_content, smtp_log, smtp_failed, exit_code>>

\* mutant: the except clause of send_email reports success
SmtpStepSwallowed(at, command, next) ==
    /\ pc = at
    /\ \/ /\ smtp_log' = Append(smtp_log, command)
          /\ pc' = next
          /\ IF next = "main_result"
             THEN success' = Some(TRUE) /\ sender_email' = None /\ sender_password' = None
             ELSE UNCHANGED <<success, sender_email, sender_password>>
          /\ UNCHANGED smtp_failed
       \/ /\ smtp_failed' = TRUE
          /\ success' = Some(TRUE)
          /\ sender_email' = None /\ sender_password' = None
          /\ pc' = "main_result"
          /\ UNCHANGED smtp_log
    /\ UNCHANGED <<remVars, clock, ticks, mainVars, windowVars, activity_summary, loopVars,
                   histVars, subject, html_content, emails_attempted, exit_code>>

\* one call on the SMTP connection: it returns, or it raises and line 387 catches;
\* the locals of send_email end when it returns
SmtpStep(at, command, next) ==
    /\ pc = at
    /\ \/ /\ smtp_log' = Append(smtp_log, command)
          /\ pc' = next
          /\ IF next = "main_result"
             THEN success' = Some(TRUE) /\ sender_email' = None /\ sender_password' = None
             ELSE UNCHANGED <<success, sender_email, sender_password>>
          /\ UNCHANGED smtp_failed
       \/ /\ smtp_failed' = TRUE
          /\ success' = Some(FALSE)
          /\ sender_email' = None /\ sender_password' = None
          /\ pc' = "main_result"
          /\ UNCHANGED smtp_log
    /\ UNCHANGED <<remVars, clock, ticks, mainVars, windowVars, activity_summary, loopVars,
                   histVars, subject, html_content, emails_attempted, exit_code>>

SmtpConnect == SmtpStep("smtp_connect", "connect", "smtp_starttls")
SmtpStartTls == SmtpStep("smtp_starttls", "starttls", "smtp_login")
\* mutant: the message is sent whether or not login succeeded
SmtpLoginUnchecked ==
    /\ pc = "smtp_login"
    /\ \/ smtp_log' = Append(smtp_log, "login")
       \/ UNCHANGED smtp_log
    /\ pc' = "smtp_send"
    /\ UNCHANGED <<remVars, clock, ticks, mainVars, windowVars, activity_summary, loopVars,
                   histVars, subject, html_content, sender_email, sender_password,
                   smtp_failed, emails_attempted, success, exit_code>>

SmtpLogin == SmtpStep("smtp_login", "login", "smtp_send")
SmtpSendMessage == SmtpStep("smtp_send", "send_message", "main_result")

\* mutant: a failed send still ends the run with status 0
exit_status_always_zero(ok) == 0

\* lines 429-433
exit_status(ok) == IF ok THEN 0 ELSE 1

\* mutant: a failed send is tried once more
MainResultRetry ==
    /\ pc = "main_result"
    /\ IF success[1] \/ emails_attempted >= 2
       THEN exit_code' = exit_status(success[1]) /\ pc' = "exit"
       ELSE pc' = "send_email" /\ UNCHANGED exit_code
    /\ UNCHANGED <<remVars, clock, ticks, mainVars, windowVars, activity_summary, loopVars,
                   histVars, mailVars>>

MainResult ==
    /\ pc = "main_result"
    /\ exit_code' = exit_status(success[1])
    /\ pc' = "exit"
    /\ UNCHANGED <<remVars, clock, ticks, mainVars, windowVars, activity_summary, loopVars,
                   histVars, mailVars>>

(***************************************************************************)
(* The commit-reminder issue script, as the specification describes it:    *)
(* it reads the age of the last commit, compares it with a 24-hour         *)
(* threshold, opens a labelled issue if the repository is stale and no     *)
(* open issue with the label exists, and otherwise closes every open       *)
(* reminder issue with a closing comment.  Runs are scheduled one after    *)
(* the other; between them time passes and commits arrive.                 *)
(***************************************************************************)
STALE_HOURS == 24
MaxHours == 26       \* the commit age is not counted beyond this
MaxRuns == 4         \* reminder runs in one behaviour

reporterVars == <<pc, clock, ticks, mainVars, windowVars, activity_summary, loopVars,
                  histVars, mailVars, exit_code>>

is_stale(hours) == hours >= STALE_HOURS

open_reminders(issues) == {i \in 1..Len(issues) : issues[i].state = "open"}

\* mutant: a new issue is created on every stale run
should_create_always(issues) == TRUE

\* a new issue is created only if no open issue carries the label
should_create(issues) == open_reminders(issues) = {}

ReminderStart ==
    /\ rem_pc = "idle"
    /\ rem_runs < MaxRuns
    /\ rem_runs' = rem_runs + 1
    /\ rem_pc' = IF is_stale(hours_since_commit) THEN "stale" ELSE "recent"
    /\ UNCHANGED <<reporterVars, hours_since_commit, reminder_issues, stale_runs>>

ReminderOpen ==
    /\ rem_pc = "stale"
    /\ reminder_issues' =
          IF should_create(reminder_issues)
          THEN Append(reminder_issues, [state |-> "open", comments |-> 0])
          ELSE reminder_issues
    /\ stale_runs' = IF is_stale(hours_since_commit) THEN stale_runs + 1 ELSE stale_runs
    /\ rem_pc' = "idle"
    /\ UNCHANGED <<reporterVars, hours_since_commit, rem_runs>>

ReminderClose ==
    /\ rem_pc = "recent"
    /\ reminder_issues' =
          [i \in 1..Len(reminder_issues) |->
              IF reminder_issues[i].state = "open"
              THEN [state |-> "closed", comments |-> reminder_issues[i].comments + 1]
              ELSE reminder_issues[i]]
    /\ rem_pc' = "idle"
    /\ UNCHANGED <<reporterVars, hours_since_commit, rem_runs, stale_runs>>

HourPasses ==
    /\ hours_since_commit < MaxHours
    /\ hours_since_commit' = hours_since_commit + 1
    /\ UNCHANGED <<reporterVars, reminder_issues, rem_pc, rem_runs, stale_runs>>

NewCommit ==
    /\ hours_since_commit > 0
    /\ hours_since_commit' = 0
    /\ stale_runs' = 0
    /\ UNCHANGED <<reporterVars, reminder_issues, rem_pc, rem_runs>>

NextReminder ==
    \/ ReminderStart \/ ReminderOpen \/ ReminderClose \/ HourPasses \/ NewCommit

InitReminder ==
    /\ Init
    /\ clock = 1709316899

SpecReminder == InitReminder /\ [][NextReminder]_vars

Next ==
    \/ Main \/ CheckDay \/ Tick \/ ActivityBegin \/ GetUser \/ NextRepo
    \/ Permission \/ Commits \/ PRSearch \/ IssueSearch \/ ActivityDone
    \/ Render \/ SendEmail \/ SmtpConnect \/ SmtpStartTls \/ SmtpLogin
    \/ SmtpSendMessage \/ MainResult

Spec == Init /\ [][Next]_vars

\* the interpreter runs the script to its end
FairSpec == Spec /\ WF_vars(Next)

(***************************************************************************)
(* Properties.                                                             *)
(***************************************************************************)
Range(seq) == {seq[i] : i \in 1..Len(seq)}
FullSession == <<"connect", "starttls", "login", "send_message">>
Finished == pc = "exit"
ConfigPresent == \A v \in {github_token, github_username, user_email} : v \notin {None, ""}

\* the Nepal calendar day (days since 1970-01-01) that contains instant t
NepalDay(t) == (t + 20700) \div 86400
\* the instant at which Nepal calendar day d begins
NepalDayStart(d) == d * 86400 - 20700
IsSaturday(d) == (d + 3) % 7 = 5
IsHoliday(d) == <<civil(d).month, civil(d).day>> \in NEPALI_HOLIDAYS

\* C1: with the three required variables present, a finished run has called
\* send_email exactly when FORCE_SEND is non-empty or the Nepal day of the run is
\* neither a Saturday nor a holiday; a skipped run has sent no request to the
\* hosting platform, opened no SMTP session, and ended with status 0.
C1_SendIffForcedOrWorkingDay ==
    (Finished /\ ConfigPresent) =>
        LET today == NepalDay(timestamp(now_nepal[1]))
            working == ~IsSaturday(today) /\ ~IsHoliday(today)
        IN  /\ (emails_attempted = 1) <=> (force_send \notin {None, ""} \/ working)
            /\ emails_attempted = 0 =>
                  /\ ~github_queried /\ ~github_failed
                  /\ smtp_log = <<>> /\ ~smtp_failed
                  /\ exit_code = 0

\* a run on a Saturday (in Nepal, Friday in UTC) with FORCE_SEND empty was skipped
C1_Witness ==
    /\ Finished /\ ConfigPresent
    /\ force_send = ""
    /\ IsSaturday(NepalDay(timestamp(now_nepal[1])))
    /\ emails_attempted = 0 /\ exit_code = 0

C3_AnyFailureExitsNonZero ==
    (Finished /\ (github_failed \/ smtp_failed)) => exit_code # 0

\* C3, amended: only a failed e-mail operation ends the run with a non-zero
\* status; after a failed call to the hosting platform the run still calls
\* send_email once, and its status is 0 exactly when send_email returned True.
C3_OnlySendFailureExitsNonZero ==
    Finished =>
        /\ smtp_failed => exit_code = 1
        /\ github_failed =>
              /\ emails_attempted = 1
              /\ (exit_code = 0) <=> (success = Some(TRUE))

\* a call to the hosting platform failed and the run ended with status 0
C3_Witness ==
    Finished /\ github_failed /\ ~smtp_failed /\ exit_code = 0

\* C4: the rendered template is the activity summary exactly when one of the three
\* totals is positive and the motivational one otherwise, with a quote from
\* MOTIVATIONAL_QUOTES; the activity template is rendered only if the platform
\* returned a commit that is not automated, a pull request or an issue.
C4_TemplateMatchesActivity ==
    html_content # Unset =>
        LET summary == activity_summary[1]
            email == html_content[1]
            active == summary.total_commits + summary.total_prs + summary.total_issues > 0
        IN  /\ email.template \in {"activity", "motivation"}
            /\ (email.template = "activity") <=> active
            /\ email.template = "activity" =>
                  /\ subject = <<"Your GitHub Activity Summary", summary.date>>
                  /\ email.quote = None
                  /\ \/ \E n \in RepoNames : returned[n] > 0
                     \/ summary.pull_requests # <<>>
                     \/ summary.issues # <<>>
            /\ email.template = "motivation" =>
                  /\ subject = <<"Daily Motivation", summary.date>>
                  /\ email.quote \in Range(MOTIVATIONAL_QUOTES)

\* the activity template was rendered for a day with one issue and nothing else
C4_Witness ==
    /\ html_content # Unset
    /\ html_content[1].template = "activity"
    /\ activity_summary[1].total_commits = 0
    /\ activity_summary[1].total_prs = 0
    /\ activity_summary[1].total_issues = 1

RECURSIVE SumOver(_, _)
SumOver(f, S) ==
    IF S = {} THEN 0
    ELSE LET x == CHOOSE y \in S : TRUE IN f[x] + SumOver(f, S \ {x})

\* get_user_activity_yesterday has returned its summary
SummaryReturned ==
    activity_summary # Unset /\ activity_summary[1].repositories_touched[1] = "int"

Listed(summary, n) == IF n \in DOMAIN summary.commits THEN summary.commits[n] ELSE <<>>

\* C5, as claimed: of the commits the platform yielded, exactly those whose first
\* line matches no automated pattern are listed under their repository and counted
\* in total_commits, and only they (with the pull requests and issues) make a
\* repository count as touched.
C5_ExactlyManualCommitsListed ==
    SummaryReturned =>
        LET summary == activity_summary[1]
        IN  /\ \A n \in RepoNames : Len(Listed(summary, n)) = returned[n]
            /\ summary.total_commits = SumOver(returned, RepoNames)
            /\ \A n \in DOMAIN summary.commits : \A i \in 1..Len(summary.commits[n]) :
                  \A k \in 1..Len(AUTOMATED_COMMIT_PATTERNS) :
                      ~contains(lower(summary.commits[n][i].message),
                                AUTOMATED_COMMIT_PATTERNS[k])
            /\ summary.repositories_touched[2] =
                  Cardinality({n \in RepoNames : returned[n] > 0}
                              \cup {summary.pull_requests[i].repo :
                                       i \in 1..Len(summary.pull_requests)}
                              \cup {summary.issues[i].repo : i \in 1..Len(summary.issues)})

\* C6: the commands that succeeded on the SMTP connection are always a prefix of
\* connect, starttls, login, send_message, so a message is sent only after
\* STARTTLS and then login succeeded; once a step has failed no message is sent and
\* send_email returns False.
C6_SendOnlyAfterTlsAndLogin ==
    /\ Len(smtp_log) <= 4
    /\ smtp_log = SubSeq(FullSession, 1, Len(smtp_log))
    /\ \A i \in 1..Len(smtp_log) :
          smtp_log[i] = "send_message" =>
              \E j \in 1..(i - 1) : \E k \in (j + 1)..(i - 1) :
                  smtp_log[j] = "starttls" /\ smtp_log[k] = "login"
    /\ smtp_failed =>
          /\ "send_message" \notin Range(smtp_log)
          /\ success = Some(FALSE)
          /\ pc \in {"main_result", "exit"}

\* STARTTLS succeeded and login raised: nothing was sent
C6_Witness ==
    /\ Finished /\ smtp_failed
    /\ smtp_log = <<"connect", "starttls">>
    /\ success = Some(FALSE)

\* C7: at most one reminder issue is open at any time
C7_AtMostOneOpenReminder ==
    Cardinality(open_reminders(reminder_issues)) <= 1

\* two runs in a row found the repository stale, and one reminder issue is open
C7_Witness ==
    /\ stale_runs >= 2
    /\ is_stale(hours_since_commit)
    /\ rem_pc = "idle"
    /\ Cardinality(open_reminders(reminder_issues)) = 1

C9_WindowIsNepalYesterday ==
    activity_summary # Unset =>
        LET today == NepalDay(clock)
            since == NepalDayStart(today - 1)
            until == NepalDayStart(today - 1) + 23 * 3600 + 59 * 60 + 59
            date == strftime_ymd([days |-> today - 1, secs |-> 0, off |-> NEPAL_TZ])
        IN  /\ yesterday_start_utc = Some(since)
            /\ yesterday_end_utc = Some(until)
            /\ commit_windows \subseteq {<<since, until>>}
            /\ search_queries \subseteq {<<"pr", date>>, <<"issue", date>>}
            /\ activity_summary[1].date = date
            /\ until < NepalDayStart(today)

\* at 23:59:59 on 1 March 2024 in Nepal the commits and both searches were
\* queried for 29 February 2024
C9_Witness ==
    /\ activity_summary # Unset
    /\ activity_summary[1].date = <<"2","0","2","4","-","0","2","-","2","9">>
    /\ commit_windows = {<<1709144100, 1709230499>>}
    /\ Cardinality(search_queries) = 2

\* C10: a run that found one of the three required variables missing or empty
\* ended with status 1 without reading the clock or FORCE_SEND, without a request
\* to the hosting platform and without calling send_email.
C10_MissingConfigExitsFirst ==
    (Finished /\ ~ConfigPresent) =>
        /\ exit_code = 1
        /\ now_nepal = Unset /\ force_send = None
        /\ activity_summary = Unset
        /\ ~github_queried /\ ~github_failed
        /\ emails_attempted = 0 /\ smtp_log = <<>> /\ ~smtp_failed

\* GITHUB_USERNAME is empty on a working day: the run ended with status 1
C10_Witness ==
    /\ Finished
    /\ github_token = "x" /\ github_username = "" /\ user_email = "x"
    /\ ~IsSaturday(NepalDay(clock)) /\ ~IsHoliday(NepalDay(clock))
    /\ exit_code = 1

RECURSIVE ListedCommits(_, _)
\* the number of commit entries under the repositories S of a commits dictionary
ListedCommits(commits, S) ==
    IF S = {} THEN 0
    ELSE LET n == CHOOSE m \in S : TRUE
         IN  Len(commits[n]) + ListedCommits(commits, S \ {n})

\* the repository names that appear among the listed commits, pull requests and issues
ListedRepositories(summary) ==
    DOMAIN summary.commits
      \cup {summary.pull_requests[i].repo : i \in 1..Len(summary.pull_requests)}
      \cup {summary.issues[i].repo : i \in 1..Len(summary.issues)}

\* C11, as claimed: whatever requests to the hosting platform succeeded or failed,
\* the returned summary agrees with itself: total_commits is the number of commit
\* entries under commits, total_prs the length of pull_requests, total_issues the
\* length of issues, and repositories_touched the number of distinct repository
\* names among the listed commits, pull requests and issues.
C11_SummaryConsistent ==
    SummaryReturned =>
        LET summary == activity_summary[1]
        IN  /\ summary.total_commits =
                  ListedCommits(summary.commits, DOMAIN summary.commits)
            /\ summary.total_prs = Len(summary.pull_requests)
            /\ summary.total_issues = Len(summary.issues)
            /\ summary.repositories_touched[2] =
                  Cardinality(ListedRepositories(summary))

====
